---- MODULE Spec2Model ----
(***************************************************************************)
(* The workflow document model of benten (models/workflow.py) and the      *)
(* manual-edit debounce of the editor window (editor/bentenwindow.py).     *)
(*                                                                         *)
(* Python values are modelled as follows.                                  *)
(*   str            a TLA+ string ("A/out1"); Len, SubSeq and \o act on it *)
(*   None or a str  a sequence of length 0 (None) or 1 (<<"x">>)           *)
(*   (int, int)     a pair <<start_line, end_line>>; None is <<>>          *)
(*   OrderedDict    a sequence of values in insertion order, keys unique   *)
(*   an exception   the name of its class in a field, "" when none raised  *)
(***************************************************************************)
EXTENDS Integers, Sequences, FiniteSets, TLC

VARIABLES
    cwl_dict,          \* the document tree being edited (cwl_doc.cwl_dict)
    pc,                \* "edit", then "built" or "raised", then "queried"
    wf,                \* the Workflow built from cwl_dict
    query,             \* the Connection handed to find_connection
    found,             \* what find_connection returned
    now,               \* time.time(), in seconds
    last_update_time,  \* ManualEditManager.last_update_time
    timer,             \* ManualEditManager.timer: active or not, and its deadline
    text,              \* the version of the text in the code editor
    modified_cwl,      \* the version update_from_code last ran on
    edit_time          \* the time of the last textChanged signal

vars == <<cwl_dict, pc, wf, query, found,
          now, last_update_time, timer, text, modified_cwl, edit_time>>

docVars == <<cwl_dict, pc, wf, query, found>>
editVars == <<now, last_update_time, timer, text, modified_cwl, edit_time>>

(***************************************************************************)
(* Bounds of the model.                                                    *)
(***************************************************************************)
MaxEdits == 3
MaxBurst == 3
MaxTime == 24

None == <<>>
Some(v) == <<v>>

(***************************************************************************)
(* The document tree handed to Workflow: cwl_doc.cwl_dict.                 *)
(***************************************************************************)
required_sections == <<"cwlVersion", "class", "inputs", "outputs", "steps">>

Range(s) == {s[i] : i \in 1..Len(s)}

StepIds == <<"A", "B", "C", "D">>
OutputIds == <<"o1">>
InputIds == {"x"}
SinkIds == {"in1", "in2"}
RunKinds == {"absent", "inline", "file", "missing_file"}
PortDocKinds == {"str", "map"}

\* The values a source / outputSource entry takes in the documents explored.
SourceRefs ==
    {None, Some(""), Some("x"), Some("y"), Some("A/out1"), Some("A/zz"),
     Some("A/out1/x")}

NoSource == [kind |-> "absent", refs |-> <<>>]

EmptyDoc ==
    [secs |-> Range(required_sections), inputs |-> <<>>, outputs |-> <<>>,
     steps |-> <<>>]

SourceSize(src) == (IF src.kind = "list" THEN 1 ELSE 0) + Len(src.refs)

RECURSIVE BindingsSize(_)
BindingsSize(bs) ==
    IF bs = <<>> THEN 0
    ELSE 1 + SourceSize(Head(bs).doc.source) + BindingsSize(Tail(bs))

RECURSIVE StepsSize(_)
StepsSize(ss) ==
    IF ss = <<>> THEN 0 ELSE 1 + BindingsSize(Head(ss).in) + StepsSize(Tail(ss))

RECURSIVE OutputsSize(_)
OutputsSize(os) ==
    IF os = <<>> THEN 0
    ELSE 1 + SourceSize(Head(os).outputSource) + OutputsSize(Tail(os))

\* The number of edits that separate a document from the empty skeleton.
DocSize(doc) ==
    (Len(required_sections) - Cardinality(doc.secs)) + Len(doc.inputs)
    + StepsSize(doc.steps) + OutputsSize(doc.outputs)

\* One declaration per line, in document order.
InputLine(doc, i) == <<i, i>>
StepLine(doc, j) == <<Len(doc.inputs) + j, Len(doc.inputs) + j>>
OutputLine(doc, k) ==
    <<Len(doc.inputs) + Len(doc.steps) + k, Len(doc.inputs) + Len(doc.steps) + k>>

AddRefTo(src, r) ==
    IF src.kind = "absent" THEN [kind |-> "scalar", refs |-> <<r>>]
    ELSE [kind |-> "list", refs |-> Append(src.refs, r)]

(***************************************************************************)
(* str operations of Python used by the model.                             *)
(***************************************************************************)
\* sub in s
IsSubstring(sub, s) ==
    \E i \in 1..(Len(s) + 1) :
        /\ i + Len(sub) - 1 <= Len(s)
        /\ SubSeq(s, i, i + Len(sub) - 1) = sub

\* s.split("/")
RECURSIVE split(_)
split(s) ==
    IF ~IsSubstring("/", s) THEN <<s>>
    ELSE LET i == CHOOSE k \in 1..Len(s) :
                     /\ SubSeq(s, k, k) = "/"
                     /\ \A j \in 1..(k - 1) : SubSeq(s, j, j) # "/"
         IN  <<SubSeq(s, 1, i - 1)>> \o split(SubSeq(s, i + 1, Len(s)))

\* ", ".join(repr(k) for k in keys)
RECURSIVE JoinRepr(_)
JoinRepr(keys) ==
    IF keys = <<>> THEN ""
    ELSE IF Len(keys) = 1 THEN "'" \o keys[1] \o "'"
    ELSE "'" \o keys[1] \o "', " \o JoinRepr(Tail(keys))

\* str(d.keys()) of a dict or an OrderedDict
KeysStr(dict_type, keys) ==
    (IF dict_type = "OrderedDict" THEN "odict_keys([" ELSE "dict_keys([")
    \o JoinRepr(keys) \o "])"

(***************************************************************************)
(* models/workflow.py                                                      *)
(***************************************************************************)
Keys(ports) == [i \in 1..Len(ports) |-> ports[i].port_id]

HasKey(ports, k) == \E i \in 1..Len(ports) : ports[i].port_id = k

Lookup(ports, k) == ports[CHOOSE i \in 1..Len(ports) : ports[i].port_id = k]

\* iter_scalar_or_list: the items of a CWLList, or the scalar alone
iter_scalar_or_list(obj) ==
    IF obj.kind = "list" THEN obj.refs ELSE <<obj.refs[1]>>

\* Port.__init__
Port(node_id, port_id, line) ==
    [node_id |-> node_id, port_id |-> port_id, line |-> line]

\* Port.__eq__
PortEq(a, b) == a.node_id = b.node_id /\ a.port_id = b.port_id

\* Port.__repr__
PortRepr(p) ==
    IF p.node_id # None THEN p.node_id[1] \o "." \o p.port_id ELSE p.port_id

\* Step.__repr__
StepRepr(step) ==
    KeysStr(step.dict_type, Keys(step.available_sinks)) \o "->" \o step.id
    \o "->" \o KeysStr(step.dict_type, Keys(step.available_sources))

\* Connection.__init__
Connection(src, dst, line) == [src |-> src, dst |-> dst, line |-> line]

\* Connection.__eq__ comparing the sinks alone
ConnEqDstOnly(a, b) == PortEq(a.dst, b.dst)

\* Connection.__eq__
ConnEq(a, b) == PortEq(a.src, b.src) /\ PortEq(a.dst, b.dst)

\* The files under the directory of the document: path -> parsed sub-process.
RootParentUri == "file:///wf/"
ToolProcess == [inputs |-> <<"in1", "in2">>, outputs |-> <<"out1">>]
ExistingFiles == {"tool.cwl"}

\* The value of step_doc["run"] for each kind of step explored; process is
\* the inline mapping, or what the file at path parses to.
RunValue(kind) ==
    CASE kind = "inline" -> [is_str |-> FALSE, path |-> "", process |-> ToolProcess]
      [] kind = "file" -> [is_str |-> TRUE, path |-> "tool.cwl", process |-> ToolProcess]
      [] OTHER -> [is_str |-> TRUE, path |-> "nowhere.cwl",
                   process |-> [inputs |-> <<>>, outputs |-> <<>>]]

StepPorts(step_id, names) ==
    [i \in 1..Len(names) |-> Port(Some(step_id), names[i], None)]

\* Step.from_doc leaving no diagnostic for a file it does not find
from_doc_silent(step_id, line, step_doc, wf_error_list) ==
    IF step_doc.run = None
    THEN [step |-> [id |-> step_id, line |-> line, dict_type |-> "dict",
                    available_sinks |-> <<>>, available_sources |-> <<>>],
          wf_error_list |-> wf_error_list]
    ELSE LET run == step_doc.run[1]
             sub_process ==
                 IF run.is_str /\ run.path \notin ExistingFiles
                 THEN [inputs |-> <<>>, outputs |-> <<>>]
                 ELSE run.process
         IN  [step |-> [id |-> step_id, line |-> line, dict_type |-> "OrderedDict",
                        available_sinks |-> StepPorts(step_id, sub_process.inputs),
                        available_sources |-> StepPorts(step_id, sub_process.outputs)],
              wf_error_list |-> wf_error_list]

\* Step.from_doc: the step and the error list it leaves
from_doc(step_id, line, step_doc, wf_error_list) ==
    IF step_doc.run = None
    THEN [step |-> [id |-> step_id, line |-> line, dict_type |-> "dict",
                    available_sinks |-> <<>>, available_sources |-> <<>>],
          wf_error_list |-> wf_error_list]
    ELSE LET run == step_doc.run[1]
             found_file == run.path \in ExistingFiles
             sub_p_uri == RootParentUri \o run.path
             sub_process ==
                 IF run.is_str /\ ~found_file
                 THEN [inputs |-> <<>>, outputs |-> <<>>]
                 ELSE run.process
             errors ==
                 IF run.is_str /\ ~found_file
                 THEN Append(wf_error_list,
                             "Could not find sub workflow: " \o run.path
                             \o " (resolved to " \o sub_p_uri \o ")")
                 ELSE wf_error_list
         IN  [step |-> [id |-> step_id, line |-> line, dict_type |-> "OrderedDict",
                        available_sinks |-> StepPorts(step_id, sub_process.inputs),
                        available_sources |-> StepPorts(step_id, sub_process.outputs)],
              wf_error_list |-> errors]

HasStep(steps, id) == \E i \in 1..Len(steps) : steps[i].id = id
StepOf(steps, id) == steps[CHOOSE i \in 1..Len(steps) : steps[i].id = id]

Resolved(port) == [raised |-> "", msg |-> "", port |-> port]
Raise(exc, msg) == [raised |-> exc, msg |-> msg, port |-> Port(None, "", None)]

\* Workflow._get_step_source
get_step_source(self, src) ==
    LET parts == split(src) IN
    IF Len(parts) # 2
    THEN Raise("ValueError", "")
    ELSE LET src_step_id == parts[1]
             src_port_id == parts[2]
         IN  IF ~HasStep(self.steps, src_step_id)
             THEN Raise("WFConnectionError", "No such source step " \o src_step_id)
             ELSE IF ~HasKey(StepOf(self.steps, src_step_id).available_sources,
                             src_port_id)
             THEN Raise("WFConnectionError",
                        "No such source port " \o src_step_id \o "." \o src_port_id)
             ELSE Resolved(Lookup(StepOf(self.steps, src_step_id).available_sources,
                                  src_port_id))

\* Workflow._get_source
get_source(self, src) ==
    IF src = None \/ src = Some("")
    THEN Raise("WFConnectionError", "No source specified")
    ELSE IF IsSubstring("/", src[1])
    THEN get_step_source(self, src[1])
    ELSE IF ~HasKey(self.inputs, src[1])
    THEN Raise("WFConnectionError", "No such WF input " \o src[1])
    ELSE Resolved(Lookup(self.inputs, src[1]))

\* "source" not in port_doc, for a mapping or for a plain string
SourceNotIn(port_doc) ==
    IF port_doc.kind = "str" THEN ~IsSubstring("source", port_doc.str)
    ELSE port_doc.source.kind = "absent"

\* Workflow._list_connections, lines 237-243: the references of one sink binding.
\* acc carries connections, problems_with_wf and the exception that escaped.
RECURSIVE StepSourceLoop(_, _, _, _, _, _)
StepSourceLoop(self, this_step, step_sink_id, sink, srcs, acc) ==
    IF srcs = <<>> \/ acc.raised # "" THEN acc
    ELSE LET r == get_source(self, Head(srcs))
             next ==
                 IF r.raised = ""
                 THEN [acc EXCEPT !.connections =
                           Append(@, Connection(r.port, sink, r.port.line))]
                 ELSE IF r.raised = "WFConnectionError"
                 THEN [acc EXCEPT !.problems =
                           Append(@, StepRepr(this_step) \o "." \o step_sink_id
                                     \o ": " \o r.msg)]
                 ELSE [acc EXCEPT !.raised = r.raised]
         IN  StepSourceLoop(self, this_step, step_sink_id, sink, Tail(srcs), next)

\* Workflow._list_connections, lines 225-243: the sink bindings of one step
RECURSIVE StepInLoop(_, _, _, _)
StepInLoop(self, this_step, bindings, acc) ==
    IF bindings = <<>> \/ acc.raised # "" THEN acc
    ELSE LET step_sink_id == Head(bindings).id
             port_doc == Head(bindings).doc
             next ==
                 IF ~HasKey(this_step.available_sinks, step_sink_id)
                 THEN [acc EXCEPT !.problems =
                           Append(@, "No such sink: " \o this_step.id \o "."
                                     \o step_sink_id)]
                 ELSE IF SourceNotIn(port_doc) THEN acc
                 ELSE IF port_doc.kind = "str"
                 THEN [acc EXCEPT !.raised = "TypeError"]
                 ELSE StepSourceLoop(self, this_step, step_sink_id,
                                     Lookup(this_step.available_sinks, step_sink_id),
                                     iter_scalar_or_list(port_doc.source), acc)
         IN  StepInLoop(self, this_step, Tail(bindings), next)

\* Workflow._list_connections, lines 218-243: connections into steps; every
\* step_doc explored is a CWLMap, so line 219 never takes its branch
RECURSIVE StepsLoop(_, _, _)
StepsLoop(self, step_docs, acc) ==
    IF step_docs = <<>> \/ acc.raised # "" THEN acc
    ELSE StepsLoop(self, Tail(step_docs),
                   StepInLoop(self, StepOf(self.steps, Head(step_docs).id),
                              Head(step_docs).in, acc))

\* Workflow._list_connections, lines 252-258: the references of one output
RECURSIVE OutputSourceLoop(_, _, _, _)
OutputSourceLoop(self, sink, srcs, acc) ==
    IF srcs = <<>> \/ acc.raised # "" THEN acc
    ELSE LET r == get_source(self, Head(srcs))
             next ==
                 IF r.raised = ""
                 THEN [acc EXCEPT !.connections =
                           Append(@, Connection(r.port, sink, r.port.line))]
                 ELSE IF r.raised = "WFConnectionError"
                 THEN [acc EXCEPT !.problems =
                           Append(@, sink.port_id \o ": " \o r.msg)]
                 ELSE [acc EXCEPT !.raised = r.raised]
         IN  OutputSourceLoop(self, sink, Tail(srcs), next)

\* Workflow._list_connections, lines 246-258: connections to workflow outputs
RECURSIVE OutputsLoop(_, _, _)
OutputsLoop(self, out_docs, acc) ==
    IF out_docs = <<>> \/ acc.raised # "" THEN acc
    ELSE LET out_doc == Head(out_docs)
             sink == Lookup(self.outputs, out_doc.id)
             next ==
                 IF out_doc.outputSource.kind # "absent"
                 THEN OutputSourceLoop(self, sink,
                                       iter_scalar_or_list(out_doc.outputSource), acc)
                 ELSE acc
         IN  OutputsLoop(self, Tail(out_docs), next)

\* Workflow._list_connections with the two passes in the other order
list_connections_outputs_first(self, doc) ==
    StepsLoop(self, doc.steps,
              OutputsLoop(self, doc.outputs,
                          [connections |-> <<>>, problems |-> self.problems_with_wf,
                           raised |-> ""]))

\* Workflow._list_connections
list_connections(self, doc) ==
    OutputsLoop(self, doc.outputs,
                StepsLoop(self, doc.steps,
                          [connections |-> <<>>, problems |-> self.problems_with_wf,
                           raised |-> ""]))

\* The check of the required sections stopping at the first one missing
SectionProblemsFirstOnly(secs, doc) ==
    IF \E i \in 1..Len(secs) : secs[i] \notin doc.secs
    THEN <<"'" \o secs[CHOOSE i \in 1..Len(secs) :
                          /\ secs[i] \notin doc.secs
                          /\ \A n \in 1..(i - 1) : secs[n] \in doc.secs]
           \o "' missing">>
    ELSE <<>>

\* Workflow.__init__, lines 163-166
RECURSIVE SectionProblems(_, _)
SectionProblems(secs, doc) ==
    IF secs = <<>> THEN <<>>
    ELSE (IF Head(secs) \notin doc.secs
          THEN <<"'" \o Head(secs) \o "' missing">> ELSE <<>>)
         \o SectionProblems(Tail(secs), doc)

\* Workflow.__init__, lines 178-183: the steps and the error list they leave
RECURSIVE BuildSteps(_, _, _, _)
BuildSteps(doc, j, steps, wf_error_list) ==
    IF j > Len(doc.steps) THEN [steps |-> steps, wf_error_list |-> wf_error_list]
    ELSE LET r == from_doc(doc.steps[j].id, StepLine(doc, j), doc.steps[j],
                           wf_error_list)
         IN  BuildSteps(doc, j + 1, Append(steps, r.step), r.wf_error_list)

\* Workflow.__init__
Workflow(doc) ==
    LET problems0 == SectionProblems(required_sections, doc)
        inputs == [i \in 1..Len(doc.inputs) |->
                       Port(None, doc.inputs[i].id, InputLine(doc, i))]
        outputs == [k \in 1..Len(doc.outputs) |->
                        Port(None, doc.outputs[k].id, OutputLine(doc, k))]
        built == BuildSteps(doc, 1, <<>>, problems0)
        self == [inputs |-> inputs, outputs |-> outputs, steps |-> built.steps,
                 problems_with_wf |-> built.wf_error_list]
        listed == list_connections(self, doc)
    IN  [raised |-> listed.raised, inputs |-> inputs, outputs |-> outputs,
         steps |-> built.steps, connections |-> listed.connections,
         problems_with_wf |-> listed.problems]

\* Workflow.find_connection: the line of the first equal connection, or None
find_connection(self, conn) ==
    IF \E i \in 1..Len(self.connections) : ConnEq(self.connections[i], conn)
    THEN self.connections[CHOOSE i \in 1..Len(self.connections) :
             /\ ConnEq(self.connections[i], conn)
             /\ \A j \in 1..(i - 1) : ~ConnEq(self.connections[j], conn)].line
    ELSE None

(***************************************************************************)
(* The documents explored: every document that at most MaxEdits edits      *)
(* produce from the skeleton (all five sections present and empty) or from *)
(* the two-step workflow BaseDoc.  Steps are mappings, port declarations   *)
(* are mappings or plain strings.                                          *)
(***************************************************************************)
\* inputs: {x: ...}, outputs: {o1: {}},
\* steps: {A: {run: {...}, in: {in1: {}}}, B: {run: {...}, in: {in1: {}}}}
BaseDoc ==
    [secs |-> Range(required_sections),
     inputs |-> <<[id |-> "x"]>>,
     outputs |-> <<[id |-> "o1", outputSource |-> NoSource]>>,
     steps |-> <<[id |-> "A", run |-> Some(RunValue("inline")),
                  in |-> <<[id |-> "in1",
                            doc |-> [kind |-> "map", str |-> "x",
                                     source |-> NoSource]]>>],
                 [id |-> "B", run |-> Some(RunValue("inline")),
                  in |-> <<[id |-> "in1",
                            doc |-> [kind |-> "map", str |-> "x",
                                     source |-> NoSource]]>>]>>]

ExtendsBase(doc) ==
    /\ Len(doc.inputs) >= 1 /\ doc.inputs[1] = BaseDoc.inputs[1]
    /\ Len(doc.outputs) >= 1
    /\ Len(doc.steps) >= 2
    /\ \A j \in 1..2 :
           /\ doc.steps[j].run = BaseDoc.steps[j].run
           /\ Len(doc.steps[j].in) >= 1
           /\ doc.steps[j].in[1].id = "in1" /\ doc.steps[j].in[1].doc.kind = "map"

\* The number of edits that separate a document from the nearest template.
Distance(doc) ==
    IF ExtendsBase(doc) THEN DocSize(doc) - DocSize(BaseDoc) ELSE DocSize(doc)

NoWorkflow ==
    [raised |-> "", inputs |-> <<>>, outputs |-> <<>>, steps |-> <<>>,
     connections |-> <<>>, problems_with_wf |-> <<>>]

NoQuery == Connection(Port(None, "", None), Port(None, "", None), None)

CanEdit == pc = "edit" /\ Distance(cwl_dict) < MaxEdits

SectionOf(sec) ==
    CASE sec = "inputs" -> cwl_dict.inputs
      [] sec = "outputs" -> cwl_dict.outputs
      [] sec = "steps" -> cwl_dict.steps
      [] OTHER -> <<>>

DeleteSection(sec) ==
    /\ sec \in cwl_dict.secs
    /\ SectionOf(sec) = <<>>
    /\ cwl_dict' = [cwl_dict EXCEPT !.secs = @ \ {sec}]
    /\ UNCHANGED <<pc, wf, query, found>>

AddInput(id) ==
    /\ "inputs" \in cwl_dict.secs
    /\ \A i \in 1..Len(cwl_dict.inputs) : cwl_dict.inputs[i].id # id
    /\ cwl_dict' = [cwl_dict EXCEPT !.inputs = Append(@, [id |-> id])]
    /\ UNCHANGED <<pc, wf, query, found>>

AddStep(kind) ==
    /\ "steps" \in cwl_dict.secs
    /\ Len(cwl_dict.steps) < Len(StepIds)
    /\ cwl_dict' = [cwl_dict EXCEPT !.steps =
           Append(@, [id |-> StepIds[Len(cwl_dict.steps) + 1],
                      run |-> IF kind = "absent" THEN None ELSE Some(RunValue(kind)),
                      in |-> <<>>])]
    /\ UNCHANGED <<pc, wf, query, found>>

AddBinding(j, sink_id, kind) ==
    /\ j \in 1..Len(cwl_dict.steps)
    /\ \A b \in 1..Len(cwl_dict.steps[j].in) : cwl_dict.steps[j].in[b].id # sink_id
    /\ cwl_dict' = [cwl_dict EXCEPT !.steps[j].in =
           Append(@, [id |-> sink_id,
                      doc |-> [kind |-> kind, str |-> "x", source |-> NoSource]])]
    /\ UNCHANGED <<pc, wf, query, found>>

ListSource(j, b) ==
    /\ j \in 1..Len(cwl_dict.steps)
    /\ b \in 1..Len(cwl_dict.steps[j].in)
    /\ cwl_dict.steps[j].in[b].doc.kind = "map"
    /\ cwl_dict.steps[j].in[b].doc.source.kind = "absent"
    /\ cwl_dict' = [cwl_dict EXCEPT !.steps[j].in[b].doc.source =
                        [kind |-> "list", refs |-> <<>>]]
    /\ UNCHANGED <<pc, wf, query, found>>

AddSource(j, b, r) ==
    /\ j \in 1..Len(cwl_dict.steps)
    /\ b \in 1..Len(cwl_dict.steps[j].in)
    /\ cwl_dict.steps[j].in[b].doc.kind = "map"
    /\ cwl_dict' = [cwl_dict EXCEPT !.steps[j].in[b].doc.source = AddRefTo(@, r)]
    /\ UNCHANGED <<pc, wf, query, found>>

AddOutput ==
    /\ "outputs" \in cwl_dict.secs
    /\ Len(cwl_dict.outputs) < Len(OutputIds)
    /\ cwl_dict' = [cwl_dict EXCEPT !.outputs =
           Append(@, [id |-> OutputIds[Len(cwl_dict.outputs) + 1],
                      outputSource |-> NoSource])]
    /\ UNCHANGED <<pc, wf, query, found>>

ListOutputSource(k) ==
    /\ k \in 1..Len(cwl_dict.outputs)
    /\ cwl_dict.outputs[k].outputSource.kind = "absent"
    /\ cwl_dict' = [cwl_dict EXCEPT !.outputs[k].outputSource =
                        [kind |-> "list", refs |-> <<>>]]
    /\ UNCHANGED <<pc, wf, query, found>>

AddOutputSource(k, r) ==
    /\ k \in 1..Len(cwl_dict.outputs)
    /\ cwl_dict' = [cwl_dict EXCEPT !.outputs[k].outputSource = AddRefTo(@, r)]
    /\ UNCHANGED <<pc, wf, query, found>>

\* Workflow(cwl_doc): the document snapshot is built into a Workflow
Build ==
    /\ pc = "edit"
    /\ wf' = Workflow(cwl_dict)
    /\ pc' = IF wf'.raised = "" THEN "built" ELSE "raised"
    /\ UNCHANGED <<cwl_dict, query, found>>

\* The candidates handed to find_connection: the endpoints of each stored
\* connection and one pair no Workflow stores, with a line of their own.
QueryLines == {<<99, 99>>}
Queries(self) ==
    {Connection(Port(c.src.node_id, c.src.port_id, None),
                Port(c.dst.node_id, c.dst.port_id, None), line) :
         c \in Range(self.connections), line \in QueryLines}
    \cup {Connection(Port(None, "y", None), Port(Some("A"), "in1", None), line) :
              line \in QueryLines}

\* Workflow.find_connection on the built Workflow
FindConnection(conn) ==
    /\ pc = "built"
    /\ query' = conn
    /\ found' = find_connection(wf, conn)
    /\ pc' = "queried"
    /\ UNCHANGED <<cwl_dict, wf>>

DocInit ==
    /\ cwl_dict \in {EmptyDoc, BaseDoc}
    /\ pc = "edit"
    /\ wf = NoWorkflow
    /\ query = NoQuery
    /\ found = None

(***************************************************************************)
(* editor/bentenwindow.py: ManualEditManager and BentenWindow.manual_edit  *)
(***************************************************************************)
update_interval == 5

InactiveTimer == [active |-> FALSE, deadline |-> 0]

\* ManualEditManager.__init__; time.time() is past update_interval
EditInit ==
    /\ now = update_interval + 1
    /\ last_update_time = 0
    /\ timer = InactiveTimer
    /\ text = 0
    /\ modified_cwl = 0
    /\ edit_time = 0

\* ManualEditManager.pass_on_edit: what it returns
pass_on_edit == now - last_update_time > update_interval

\* BentenWindow.manual_edit with a pass_on_edit that starts no timer
manual_edit_no_timer(new_text) ==
    IF pass_on_edit
    THEN /\ timer' = InactiveTimer
         /\ last_update_time' = now
         /\ modified_cwl' = new_text
    ELSE UNCHANGED <<timer, last_update_time, modified_cwl>>

\* BentenWindow.manual_edit with the text as it is after the signal
manual_edit(new_text) ==
    IF pass_on_edit
    THEN /\ timer' = InactiveTimer
         /\ last_update_time' = now
         /\ modified_cwl' = new_text
    ELSE /\ timer' = [active |-> TRUE, deadline |-> now + update_interval]
         /\ UNCHANGED <<last_update_time, modified_cwl>>

\* code_editor.textChanged -> manual_edit
TextChanged ==
    /\ text < MaxBurst
    /\ now + 2 * update_interval <= MaxTime
    /\ text' = text + 1
    /\ edit_time' = now
    /\ manual_edit(text')
    /\ UNCHANGED now

\* timer.timeout -> manual_edit; the timer is single-shot
Timeout ==
    /\ timer.active
    /\ now = timer.deadline
    /\ manual_edit(text)
    /\ UNCHANGED <<now, text, edit_time>>

\* A second passes; a timer that is due fires first
Tick ==
    /\ now < MaxTime
    /\ ~(timer.active /\ now >= timer.deadline)
    /\ now' = now + 1
    /\ UNCHANGED <<last_update_time, timer, text, modified_cwl, edit_time>>

Init == DocInit /\ EditInit

Next ==
    \/ CanEdit /\ \E sec \in Range(required_sections) : DeleteSection(sec) /\ UNCHANGED editVars
    \/ CanEdit /\ \E id \in InputIds : AddInput(id) /\ UNCHANGED editVars
    \/ CanEdit /\ \E kind \in RunKinds : AddStep(kind) /\ UNCHANGED editVars
    \/ CanEdit /\ \E j \in 1..Len(StepIds), sink_id \in SinkIds, kind \in PortDocKinds :
           AddBinding(j, sink_id, kind) /\ UNCHANGED editVars
    \/ CanEdit /\ \E j \in 1..Len(StepIds), b \in 1..Cardinality(SinkIds) :
           ListSource(j, b) /\ UNCHANGED editVars
    \/ CanEdit /\ \E j \in 1..Len(StepIds), b \in 1..Cardinality(SinkIds), r \in SourceRefs :
           AddSource(j, b, r) /\ UNCHANGED editVars
    \/ CanEdit /\ AddOutput /\ UNCHANGED editVars
    \/ CanEdit /\ \E k \in 1..Len(OutputIds) : ListOutputSource(k) /\ UNCHANGED editVars
    \/ CanEdit /\ \E k \in 1..Len(OutputIds), r \in SourceRefs :
           AddOutputSource(k, r) /\ UNCHANGED editVars
    \/ Build /\ UNCHANGED editVars
    \/ \E conn \in Queries(wf) : FindConnection(conn) /\ UNCHANGED editVars

Spec == Init /\ [][Next]_vars

TimeoutFires == Timeout /\ UNCHANGED docVars
TimePasses == Tick /\ UNCHANGED docVars

EditNext ==
    \/ TextChanged /\ UNCHANGED docVars
    \/ TimeoutFires
    \/ TimePasses

WindowInit ==
    /\ cwl_dict = EmptyDoc /\ pc = "edit" /\ wf = NoWorkflow
    /\ query = NoQuery /\ found = None
    /\ EditInit

EditSpec ==
    /\ WindowInit
    /\ [][EditNext]_vars
    /\ WF_vars(TimeoutFires)
    /\ WF_vars(TimePasses)

(***************************************************************************)
(* What a document declares, read off the document alone.                  *)
(***************************************************************************)
Built == pc \in {"built", "queried"}

FileMissing(step_doc) ==
    /\ step_doc.run # None
    /\ step_doc.run[1].is_str
    /\ step_doc.run[1].path \notin ExistingFiles

\* The interface of the sub-process a step runs
Interface(step_doc) ==
    IF step_doc.run = None \/ FileMissing(step_doc)
    THEN [inputs |-> <<>>, outputs |-> <<>>]
    ELSE step_doc.run[1].process

\* The endpoint <<node_id, port_id>> pairs a reference denotes in a document
Targets(doc, r) ==
    IF r = None THEN {}
    ELSE {<<None, doc.inputs[i].id>> : i \in {n \in 1..Len(doc.inputs) :
                                               doc.inputs[n].id = r[1]}}
         \cup UNION {{<<Some(doc.steps[j].id), o>> :
                         o \in {q \in Range(Interface(doc.steps[j]).outputs) :
                                   r[1] = doc.steps[j].id \o "/" \o q}} :
                     j \in 1..Len(doc.steps)}

Resolvable(doc, r) == Targets(doc, r) # {}

\* The references a field lists: a scalar is one reference
Listed(field) ==
    CASE field.kind = "absent" -> <<>>
      [] field.kind = "scalar" -> <<field.refs[1]>>
      [] OTHER -> field.refs

\* Whether binding b of step j names one of the step's sinks and has a source
Bound(doc, j, b) ==
    /\ doc.steps[j].in[b].id \in Range(Interface(doc.steps[j]).inputs)
    /\ doc.steps[j].in[b].doc.kind = "map"
    /\ doc.steps[j].in[b].doc.source.kind # "absent"

\* The <<src, dst>> endpoint pairs the resolvable references of a list give
RECURSIVE ExpectedFrom(_, _, _)
ExpectedFrom(doc, refs, dst) ==
    IF refs = <<>> THEN <<>>
    ELSE (IF Resolvable(doc, Head(refs))
          THEN <<<<CHOOSE t \in Targets(doc, Head(refs)) : TRUE, dst>>>>
          ELSE <<>>)
         \o ExpectedFrom(doc, Tail(refs), dst)

RECURSIVE ExpectedBindings(_, _, _)
ExpectedBindings(doc, j, b) ==
    IF b > Len(doc.steps[j].in) THEN <<>>
    ELSE (IF Bound(doc, j, b)
          THEN ExpectedFrom(doc, Listed(doc.steps[j].in[b].doc.source),
                            <<Some(doc.steps[j].id), doc.steps[j].in[b].id>>)
          ELSE <<>>)
         \o ExpectedBindings(doc, j, b + 1)

RECURSIVE ExpectedSteps(_, _)
ExpectedSteps(doc, j) ==
    IF j > Len(doc.steps) THEN <<>>
    ELSE ExpectedBindings(doc, j, 1) \o ExpectedSteps(doc, j + 1)

RECURSIVE ExpectedOutputs(_, _)
ExpectedOutputs(doc, k) ==
    IF k > Len(doc.outputs) THEN <<>>
    ELSE ExpectedFrom(doc, Listed(doc.outputs[k].outputSource),
                      <<None, doc.outputs[k].id>>)
         \o ExpectedOutputs(doc, k + 1)

\* The endpoint pairs of a connection list
Ends(connections) ==
    [i \in 1..Len(connections) |->
        <<<<connections[i].src.node_id, connections[i].src.port_id>>,
          <<connections[i].dst.node_id, connections[i].dst.port_id>>>>]

\* The positions of a list of problems that hold a given entry
Entries(problems, entry) == {i \in 1..Len(problems) : problems[i] = entry}

StartsWith(str, prefix) ==
    Len(str) >= Len(prefix) /\ SubSeq(str, 1, Len(prefix)) = prefix

\* The references the build resolves: those of bound sinks and of outputs
ResolvedRefs(doc) ==
    UNION {Range(Listed(doc.steps[j].in[b].doc.source)) :
              <<j, b>> \in {<<n, m>> \in (1..Len(doc.steps)) \X (1..Cardinality(SinkIds)) :
                               m <= Len(doc.steps[n].in) /\ Bound(doc, n, m)}}
    \cup UNION {Range(Listed(doc.outputs[k].outputSource)) : k \in 1..Len(doc.outputs)}

\* A reference with more than one "/"
Malformed(r) ==
    r # None /\ Cardinality({i \in 1..Len(r[1]) : SubSeq(r[1], i, i) = "/"}) > 1

\* The pairs <<j, b>> of the bound sink bindings of a document
BoundSinks(doc) ==
    {<<j, b>> \in (1..Len(doc.steps)) \X (1..Cardinality(SinkIds)) :
        b <= Len(doc.steps[j].in) /\ Bound(doc, j, b)}

\* The reason a reference fails for, as section 4.3 step 5 words it; a
\* reference with "/" is cut at any one of its "/"
Reasons(doc, r) ==
    IF r = None \/ r = Some("") THEN {"No source specified"}
    ELSE IF ~IsSubstring("/", r[1])
    THEN {"No such WF input " \o r[1] : i \in {n \in {1} : ~Resolvable(doc, r)}}
    ELSE UNION {
        LET id == SubSeq(r[1], 1, i - 1)
            port == SubSeq(r[1], i + 1, Len(r[1]))
            known == {j \in 1..Len(doc.steps) : doc.steps[j].id = id}
        IN  IF known = {} THEN {"No such source step " \o id}
            ELSE {"No such source port " \o id \o "." \o port :
                     j \in {n \in known :
                               port \notin Range(Interface(doc.steps[n]).outputs)}} :
        i \in {n \in 1..Len(r[1]) : SubSeq(r[1], n, n) = "/"}}

(***************************************************************************)
(* C1: constructing a Workflow never raises, whatever sections are missing *)
(* and whatever shape the source references have, a reference with more    *)
(* than one "/" included.                                                  *)
(***************************************************************************)
C1_BuildNeverRaises == pc # "raised"

(***************************************************************************)
(* C2: when a reference of a bound sink fails to resolve, problems holds   *)
(* exactly the string "<step id>.<sink>: <reason>", and the failed         *)
(* reference adds no connection.                                           *)
(***************************************************************************)
C2_DiagnosticNamesStepId ==
    Built =>
        \A jb \in BoundSinks(cwl_dict) :
            LET step_doc == cwl_dict.steps[jb[1]]
                binding == step_doc.in[jb[2]]
            IN  \A r \in Range(Listed(binding.doc.source)) :
                    ~Resolvable(cwl_dict, r) =>
                        \E reason \in Reasons(cwl_dict, r) :
                            Entries(wf.problems_with_wf,
                                    step_doc.id \o "." \o binding.id \o ": " \o reason)
                            # {}

(***************************************************************************)
(* C8: every reference the build resolves gets exactly one result: the     *)
(* port it denotes, or a failure with the reason of its class.             *)
(***************************************************************************)
C8_ReferenceClassified ==
    pc # "edit" =>
        \A r \in ResolvedRefs(cwl_dict) :
            LET got == get_source(wf, r) IN
            IF Resolvable(cwl_dict, r)
            THEN /\ got.raised = ""
                 /\ <<got.port.node_id, got.port.port_id>> \in Targets(cwl_dict, r)
                 /\ Cardinality(Targets(cwl_dict, r)) = 1
            ELSE /\ got.raised = "WFConnectionError"
                 /\ got.msg \in Reasons(cwl_dict, r)

\* The positions of a list of references that do not resolve
Unresolved(doc, refs) == {i \in 1..Len(refs) : ~Resolvable(doc, refs[i])}

RECURSIVE SumOver(_, _)
SumOver(set, f) ==
    IF set = {} THEN 0
    ELSE LET e == CHOOSE x \in set : TRUE IN f[e] + SumOver(set \ {e}, f)

\* The references of bound sinks and of outputs that do not resolve, counted
UnresolvedCount(doc) ==
    SumOver(BoundSinks(doc),
            [jb \in BoundSinks(doc) |->
                Cardinality(Unresolved(doc, Listed(doc.steps[jb[1]].in[jb[2]].doc.source)))])
    + SumOver(1..Len(doc.outputs),
              [k \in 1..Len(doc.outputs) |->
                  Cardinality(Unresolved(doc, Listed(doc.outputs[k].outputSource)))])

\* The problems a document has that are not about a reference
OtherProblemCount(doc) ==
    (Len(required_sections) - Cardinality(doc.secs))
    + Cardinality({j \in 1..Len(doc.steps) : FileMissing(doc.steps[j])})
    + Cardinality({jb \in (1..Len(doc.steps)) \X (1..Cardinality(SinkIds)) :
                      /\ jb[2] <= Len(doc.steps[jb[1]].in)
                      /\ doc.steps[jb[1]].in[jb[2]].id
                             \notin Range(Interface(doc.steps[jb[1]]).inputs)})

\* The endpoint pairs of the connections into one sink, in list order
Into(connections, dst) ==
    SelectSeq(Ends(connections), LAMBDA e : e[2] = dst)

(***************************************************************************)
(* C3: each reference of a bound sink has one outcome of its own: a        *)
(* resolvable one appends one Connection from the port it denotes to the   *)
(* sink, an unresolvable one appends one diagnostic and no Connection, and *)
(* no reference keeps a later reference, binding or step from its outcome. *)
(***************************************************************************)
C3_OneOutcomePerReference ==
    pc # "edit" =>
        /\ \A jb \in BoundSinks(cwl_dict) :
               LET dst == <<Some(cwl_dict.steps[jb[1]].id),
                            cwl_dict.steps[jb[1]].in[jb[2]].id>>
               IN  Into(wf.connections, dst)
                   = ExpectedFrom(cwl_dict,
                                  Listed(cwl_dict.steps[jb[1]].in[jb[2]].doc.source), dst)
        /\ Len(wf.problems_with_wf)
           = OtherProblemCount(cwl_dict) + UnresolvedCount(cwl_dict)

(***************************************************************************)
(* C4: find_connection, given the endpoints of a stored connection and any *)
(* line, returns the stored line and not nothing; given endpoints no       *)
(* stored connection has, it returns nothing.                              *)
(***************************************************************************)
C4_FindReturnsStoredLine ==
    pc = "queried" =>
        IF \E i \in 1..Len(wf.connections) : ConnEq(wf.connections[i], query)
        THEN /\ found # None
             /\ \E i \in 1..Len(wf.connections) :
                    ConnEq(wf.connections[i], query) /\ found = wf.connections[i].line
        ELSE found = None

\* A build raises only on a reference with more than one "/"
RaisedByReference ==
    pc = "raised" => \E r \in ResolvedRefs(cwl_dict) : Malformed(r)

\* The endpoint pairs of the connections into the sinks of one step
IntoStep(connections, step_id) ==
    SelectSeq(Ends(connections), LAMBDA e : e[2][1] = Some(step_id))

(***************************************************************************)
(* C5: a step whose run names a file that does not exist is still a step   *)
(* of the Workflow, with no sinks and no sources; problems holds one entry *)
(* "Could not find sub workflow: <run> ..." for it; every other step has   *)
(* the ports of its sub-process and the connections of its bindings.       *)
(***************************************************************************)
C5_MissingSubWorkflowDegrades ==
    /\ RaisedByReference
    /\ Built =>
        /\ Len(wf.steps) = Len(cwl_dict.steps)
        /\ \A j \in 1..Len(cwl_dict.steps) :
               LET step_doc == cwl_dict.steps[j]
                   step == wf.steps[j]
               IN  /\ step.id = step_doc.id
                   /\ FileMissing(step_doc) =>
                          step.available_sinks = <<>> /\ step.available_sources = <<>>
                   /\ Keys(step.available_sinks) = Interface(step_doc).inputs
                   /\ Keys(step.available_sources) = Interface(step_doc).outputs
                   /\ \A i \in 1..Len(step.available_sinks) :
                          step.available_sinks[i].node_id = Some(step_doc.id)
                   /\ \A i \in 1..Len(step.available_sources) :
                          step.available_sources[i].node_id = Some(step_doc.id)
                   /\ IntoStep(wf.connections, step_doc.id)
                      = ExpectedBindings(cwl_dict, j, 1)
        /\ \A path \in {cwl_dict.steps[j].run[1].path :
                           j \in {n \in 1..Len(cwl_dict.steps) :
                                     FileMissing(cwl_dict.steps[n])}} :
               Cardinality({i \in 1..Len(wf.problems_with_wf) :
                               StartsWith(wf.problems_with_wf[i],
                                          "Could not find sub workflow: " \o path)})
               = Cardinality({j \in 1..Len(cwl_dict.steps) :
                                 /\ FileMissing(cwl_dict.steps[j])
                                 /\ cwl_dict.steps[j].run[1].path = path})
        /\ Cardinality({i \in 1..Len(wf.problems_with_wf) :
                           StartsWith(wf.problems_with_wf[i],
                                      "Could not find sub workflow: ")})
           = Cardinality({j \in 1..Len(cwl_dict.steps) : FileMissing(cwl_dict.steps[j])})

\* A step with a missing file between steps with resolved ports, one of them
\* with a connection
C5_Witness ==
    /\ pc = "built"
    /\ Len(wf.steps) = 4
    /\ FileMissing(cwl_dict.steps[3])
    /\ wf.steps[3].available_sinks = <<>>
    /\ wf.steps[3].available_sources = <<>>
    /\ wf.steps[2].available_sinks # <<>>
    /\ wf.steps[4].available_sources # <<>>
    /\ IntoStep(wf.connections, "B") # <<>>

(***************************************************************************)
(* C6: for each of the five required sections S, problems holds exactly    *)
(* one entry "'S' missing" when the document lacks S and none when it has  *)
(* S; no missing section stops the build, and the collection of a missing  *)
(* section is empty.                                                       *)
(***************************************************************************)
C6_MissingSectionsReported ==
    /\ RaisedByReference
    /\ Built =>
        /\ \A sec \in Range(required_sections) :
               Cardinality(Entries(wf.problems_with_wf, "'" \o sec \o "' missing"))
               = IF sec \in cwl_dict.secs THEN 0 ELSE 1
        /\ "inputs" \notin cwl_dict.secs => wf.inputs = <<>>
        /\ "outputs" \notin cwl_dict.secs => wf.outputs = <<>>
        /\ "steps" \notin cwl_dict.secs => wf.steps = <<>>

\* A Workflow built from a document without "outputs" and without "class"
C6_Witness ==
    /\ pc = "built"
    /\ "outputs" \notin cwl_dict.secs
    /\ "class" \notin cwl_dict.secs
    /\ Entries(wf.problems_with_wf, "'outputs' missing") # {}

\* The source and outputSource sequences of a document, each with its sink
SourceLists(doc) ==
    {<<<<Some(doc.steps[jb[1]].id), doc.steps[jb[1]].in[jb[2]].id>>,
       Listed(doc.steps[jb[1]].in[jb[2]].doc.source)>> : jb \in BoundSinks(doc)}
    \cup {<<<<None, doc.outputs[k].id>>, Listed(doc.outputs[k].outputSource)>> :
             k \in 1..Len(doc.outputs)}

\* Whether the sequence bound to sink dst lists twice a reference to src
ListedTwice(doc, src, dst) ==
    \E sl \in SourceLists(doc) :
        /\ sl[1] = dst
        /\ \E m, n \in 1..Len(sl[2]) :
               m # n /\ sl[2][m] = sl[2][n] /\ src \in Targets(doc, sl[2][m])

C10_FinalEditPassedOn == <>[](modified_cwl = text)

\* An edit made at the instant of an update, passed on by the second timeout
C10_Witness ==
    /\ text > 1
    /\ modified_cwl = text
    /\ last_update_time = edit_time + 2 * update_interval

====
